---- MODULE Spec2Model ----
(***************************************************************************)
(* Alert dispatch and de-duplication pipeline of server/Server.js:         *)
(* shouldSend (the 90 s suppression window), the Twilio adapter            *)
(* (sendImmediateSMS / scheduleSMS) and the three POST handlers            *)
(* (/api/send-sms, /api/schedule-sms, /api/predict).                       *)
(*                                                                         *)
(* Node runs every handler on one thread: a handler runs without           *)
(* interruption from its start to its first pending await, so each action  *)
(* below is one such synchronous segment.                                  *)
(***************************************************************************)
EXTENDS Integers, Sequences, FiniteSets, TLC

VARIABLES clock, lastSendByKey, cfg, reqs, nextOrd

vars == <<clock, lastSendByKey, cfg, reqs, nextOrd>>

(***************************************************************************)
(* Bounds of the model                                                     *)
(***************************************************************************)
\* number of HTTP requests handled in one behaviour
NReq == 2
\* number of /api/send-sms requests in the behaviours of SpecGate
NGate == 3
\* Date.now() reads up to MaxTicks half-windows after the epoch
MaxTicks == 4
\* number of HTTP requests handled in one behaviour of SpecOne, and of
\* adapter calls made in one behaviour of SpecAdapter
NOne == 1


(***************************************************************************)
(* JavaScript values                                                       *)
(* Numbers are fixed-point, in units of 1/Scale, and non-negative.         *)
(***************************************************************************)
Scale == 10 ^ 4

Undef == [t |-> "undefined", n |-> 0, s |-> ""]
Null == [t |-> "null", n |-> 0, s |-> ""]
Str(s) == [t |-> "string", n |-> 0, s |-> s]
Num(n) == [t |-> "number", n |-> n, s |-> ""]
Bool(b) == [t |-> "boolean", n |-> IF b THEN 1 ELSE 0, s |-> ""]

\* ToBoolean
Truthy(v) ==
  CASE v.t = "string" -> v.s # ""
    [] v.t = "number" -> v.n # 0
    [] v.t = "boolean" -> v.n = 1
    [] OTHER -> FALSE

\* a || b
Or(a, b) == IF Truthy(a) THEN a ELSE b

\* a ?? b
Coalesce(a, b) == IF a.t \in {"undefined", "null"} THEN b ELSE a

DigitChars == <<"0", "1", "2", "3", "4", "5", "6", "7", "8", "9">>

RECURSIVE DecStr(_)
DecStr(n) ==
  IF n < 10 THEN DigitChars[n + 1]
  ELSE DecStr(n \div 10) \o DigitChars[(n % 10) + 1]

\* the digits of f, a fraction in units of 1/(10^w), left-padded to width w
RECURSIVE PadStr(_, _)
PadStr(f, w) ==
  IF w = 0 THEN "" ELSE PadStr(f \div 10, w - 1) \o DigitChars[(f % 10) + 1]

\* fraction digits with the trailing zeros dropped
RECURSIVE FracStr(_, _)
FracStr(f, w) ==
  IF f % 10 = 0 /\ w > 1 THEN FracStr(f \div 10, w - 1) ELSE PadStr(f, w)

\* Number.prototype.toString of a non-negative fixed-point number
NumberToString(n) ==
  IF n % Scale = 0 THEN DecStr(n \div Scale)
  ELSE DecStr(n \div Scale) \o "." \o FracStr(n % Scale, 4)

\* Number.prototype.toFixed(3): three decimals, rounded to nearest
ToFixed3(n) ==
  LET m == (n + 5) \div 10
  IN DecStr(m \div 1000) \o "." \o PadStr(m % 1000, 3)

\* `${v}` in a template literal
ToStr(v) ==
  CASE v.t = "string" -> v.s
    [] v.t = "number" -> NumberToString(v.n)
    [] v.t = "boolean" -> IF v.n = 1 THEN "true" ELSE "false"
    [] v.t = "null" -> "null"
    [] OTHER -> "undefined"

(***************************************************************************)
(* De-duplication                                                          *)
(***************************************************************************)
DEBOUNCE_MS == 90 * 1000

\* Date.now() is a wall clock: a handler reads any of these values, at a
\* granularity of half a window
TickMs == DEBOUNCE_MS \div 2
MaxClock == MaxTicks * TickMs
NowValues == {k * TickMs : k \in 0..MaxTicks}

\* mutation: the stored timestamp is never found
LastOf_NeverFound(map, key) == 0

\* lastSendByKey.get(key) || 0
LastOf(map, key) == IF key \in DOMAIN map THEN map[key] ELSE 0

\* mutation: the window is half as long
ShouldSendResult_HalfWindow(map, key, now) == ~(now - LastOf(map, key) < TickMs)

\* shouldSend(key): the returned boolean
ShouldSendResult(map, key, now) == ~(now - LastOf(map, key) < DEBOUNCE_MS)

\* mutation: an admission is not recorded
ShouldSendMap_NoWrite(map, key, now) == map

\* mutation: every call records the time, also a suppressed one
ShouldSendMap_Sliding(map, key, now) ==
  [k \in (DOMAIN map) \cup {key} |-> IF k = key THEN now ELSE map[k]]

\* mutation: only the first admission of a key is recorded
ShouldSendMap_KeepsFirst(map, key, now) ==
  IF ShouldSendResult(map, key, now) /\ key \notin DOMAIN map
  THEN [k \in (DOMAIN map) \cup {key} |-> IF k = key THEN now ELSE map[k]]
  ELSE map

\* mutation: an admission drops the entries of the other keys
ShouldSendMap_Forgets(map, key, now) ==
  IF ShouldSendResult(map, key, now) THEN [k \in {key} |-> now] ELSE map

\* mutation: an admission refreshes the entry of every key
ShouldSendMap_TouchesAll(map, key, now) ==
  IF ShouldSendResult(map, key, now)
  THEN [k \in (DOMAIN map) \cup {key} |-> now]
  ELSE map

\* shouldSend(key): the map after the call
ShouldSendMap(map, key, now) ==
  IF ShouldSendResult(map, key, now)
  THEN [k \in (DOMAIN map) \cup {key} |-> IF k = key THEN now ELSE map[k]]
  ELSE map

(***************************************************************************)
(* Configuration (environment)                                             *)
(***************************************************************************)
\* client: twilioClient is not null (account SID and auth token both set);
\* msid: TWILIO_MSID; defaultTo: DEFAULT_ALERT_TO
Configs ==
  [client : BOOLEAN, msid : {Undef, Str("MG1")}, defaultTo : {Undef, Str("D")}]

requireTwilio(c) == c.client /\ Truthy(c.msid)

(***************************************************************************)
(* Twilio adapter                                                          *)
(***************************************************************************)
NoResult == [ok |-> FALSE, sid |-> "", error |-> ""]
Failed(msg) == [ok |-> FALSE, sid |-> "", error |-> msg]
Sent(sid) == [ok |-> TRUE, sid |-> sid, error |-> ""]

\* mutation: the recipient is not checked
Precheck_NoRecipientCheck(c, to, body) ==
  IF ~(c.client /\ Truthy(c.msid)) THEN "Twilio not configured"
  ELSE IF ~Truthy(body) THEN "Missing \"body\""
  ELSE ""

\* mutation: the body is checked before the recipient
Precheck_BodyFirst(c, to, body) ==
  IF ~(c.client /\ Truthy(c.msid)) THEN "Twilio not configured"
  ELSE IF ~Truthy(body) THEN "Missing \"body\""
  ELSE IF ~Truthy(to) THEN "Missing \"to\" number"
  ELSE ""

\* the checks sendImmediateSMS and scheduleSMS make before the provider
\* call: the error they return, "" when the provider is to be called
Precheck(c, to, body) ==
  IF ~requireTwilio(c) THEN "Twilio not configured"
  ELSE IF ~Truthy(to) THEN "Missing \"to\" number"
  ELSE IF ~Truthy(body) THEN "Missing \"body\""
  ELSE ""

\* what twilioClient.messages.create can settle with: a message, or a
\* thrown value e with e.message and String(e)
ProviderOutcomes ==
  { [ok |-> TRUE, sid |-> "SM1", message |-> Undef, str |-> ""],
    [ok |-> FALSE, sid |-> "", message |-> Str("Invalid number"),
     str |-> "Error: Invalid number"],
    [ok |-> FALSE, sid |-> "", message |-> Undef, str |-> "ECONNRESET"] }

\* the awaited provider call has not settled
NoOutcome == [ok |-> FALSE, sid |-> "", message |-> Undef, str |-> ""]

\* mutation: a failure is always described by String(err)
AdapterResult_StringOnly(o) == IF o.ok THEN Sent(o.sid) ELSE Failed(o.str)

\* the DispatchResult after the awaited provider call settles
AdapterResult(o) ==
  IF o.ok THEN Sent(o.sid)
  ELSE Failed(ToStr(Or(o.message, Str(o.str))))

(***************************************************************************)
(* Upstream prediction service                                             *)
(***************************************************************************)
Band(th, r) == [isNull |-> FALSE, threshold |-> th, radius_km |-> r]
NullBand == [isNull |-> TRUE, threshold |-> "", radius_km |-> Undef]

ListOf(bands) == [kind |-> "list", bands |-> bands]
AbsentList == [kind |-> "absent", bands |-> <<>>]
\* a value that is neither null/undefined nor an array (it has no find)
NotAList == [kind |-> "other", bands |-> <<>>]

Outcome(red, op) ==
  [red_alert |-> red, hazard_level |-> Str("High"), overpressure |-> op]
NoData == Outcome(Undef, AbsentList)

\* data?.overpressure?.find((b) => b.threshold === "5 psi")?.radius_km
\* threw: the evaluation raised a TypeError
RECURSIVE FindFrom(_, _)
FindFrom(bands, i) ==
  IF i > Len(bands) THEN [threw |-> FALSE, value |-> Undef]
  ELSE IF bands[i].isNull THEN [threw |-> TRUE, value |-> Undef]
  ELSE IF bands[i].threshold = "5 psi"
       THEN [threw |-> FALSE, value |-> bands[i].radius_km]
  ELSE FindFrom(bands, i + 1)

FindSevere(op) ==
  CASE op.kind = "absent" -> [threw |-> FALSE, value |-> Undef]
    [] op.kind = "other" -> [threw |-> TRUE, value |-> Undef]
    [] OTHER -> FindFrom(op.bands, 1)

\* a failed axios.post: err.response?.data and err.message
UpstreamError(hasResponse, data, message) ==
  [hasResponse |-> hasResponse, data |-> data, message |-> message]

NoUpstreamError == UpstreamError(FALSE, Undef, "")

\* mutation: the upstream response body is dropped
ErrorDetails_MessageOnly(e) == Str(e.message)

\* err?.response?.data || err.message
ErrorDetails(e) == Or(IF e.hasResponse THEN e.data ELSE Undef, Str(e.message))

(***************************************************************************)
(* Requests                                                                *)
(***************************************************************************)
Body(to, body, sendAt, phone, lat, lon) ==
  [to |-> to, body |-> body, sendAt |-> sendAt, notify_phone |-> phone,
   lat |-> lat, lon |-> lon]
NoBody == Body(Undef, Undef, Undef, Undef, Undef, Undef)

NoSms == [to |-> Undef, body |-> Undef, sendAt |-> Undef]

NoResponse ==
  [status |-> 0, tag |-> "none", result |-> NoResult, data |-> NoData,
   error |-> "", details |-> Undef]
\* res.status(429).json({ error })
Debounced(msg) == [NoResponse EXCEPT !.status = 429, !.tag = "debounce", !.error = msg]
\* mutation: a failed result is answered like a successful one
DispatchResponse_Always200(r) ==
  [NoResponse EXCEPT !.status = 200, !.tag = "dispatch", !.result = r]

\* res.status(400).json(r) and res.json(r)
DispatchResponse(r) ==
  [NoResponse EXCEPT !.status = IF r.ok THEN 200 ELSE 400, !.tag = "dispatch",
                     !.result = r]
\* res.json(data)
DataResponse(d) == [NoResponse EXCEPT !.status = 200, !.tag = "data", !.data = d]
\* res.status(400).json({ error: "Prediction failed", details })
PredictionFailed(details) ==
  [NoResponse EXCEPT !.status = 400, !.tag = "error",
                     !.error = "Prediction failed", !.details = details]

\* a request that has not arrived yet
Idle ==
  [pc |-> "idle", kind |-> "none", body |-> NoBody, key |-> "",
   admitted |-> FALSE, at |-> 0, ord |-> 0,
   trace |-> <<>>, sms |-> NoSms, settledWith |-> NoOutcome, result |-> NoResult,
   upstreamOk |-> FALSE, upstreamErr |-> NoUpstreamError, data |-> NoData,
   summaryRadius |-> Undef, res |-> NoResponse]

Has(trace, e) == \E i \in 1..Len(trace) : trace[i] = e
Count(trace, e) == Cardinality({i \in 1..Len(trace) : trace[i] = e})
\* position of the first e in trace, 0 when there is none
First(trace, e) ==
  IF Has(trace, e)
  THEN CHOOSE i \in 1..Len(trace) : trace[i] = e /\ \A j \in 1..(i - 1) : trace[j] # e
  ELSE 0

Log(rec, e) == [rec EXCEPT !.trace = Append(@, e)]

\* res.json(...) / res.status(...).json(...): the handler is finished
Respond(rec, res) == [Log(rec, "respond") EXCEPT !.res = res, !.pc = "done"]

\* mutation: the handler ignores what shouldSend returned
Gate_AlwaysAdmits(rec, key, map, now, ord) ==
  [Log(rec, "shouldSend") EXCEPT !.key = key, !.admitted = TRUE,
                                 !.at = now, !.ord = ord]

\* the call shouldSend(key) made by a handler at time now
Gate(rec, key, map, now, ord) ==
  [Log(rec, "shouldSend") EXCEPT !.key = key,
                                 !.admitted = ShouldSendResult(map, key, now),
                                 !.at = now, !.ord = ord]

\* sendImmediateSMS / scheduleSMS up to the awaited provider call
CallAdapter(rec, c, to, body, sendAt) ==
  LET pre == Precheck(c, to, body)
      called == Log(rec, "adapter")
  IN IF pre # "" THEN [called EXCEPT !.result = Failed(pre)]
     ELSE [Log(called, "create") EXCEPT
             !.sms = [to |-> to, body |-> body, sendAt |-> sendAt],
             !.pc = "awaitProvider"]

(***************************************************************************)
(* POST /api/send-sms                                                      *)
(***************************************************************************)
DefaultSendBody == "Test from Node"

SendTo(b, c) == Or(b.to, c.defaultTo)
\* mutation: the body of the request is taken as it is
SendBody_NoDefault(b) == b.body

\* req.body?.body || "Test from Node"
SendBody(b) == Or(b.body, Str(DefaultSendBody))
SendKey(b, c) == "send|" \o ToStr(SendTo(b, c)) \o "|" \o ToStr(SendBody(b))

SendSmsRec(rec, b, c, map, now, ord) ==
  LET gated == Gate([rec EXCEPT !.kind = "send", !.body = b],
                    SendKey(b, c), map, now, ord)
  IN IF ~gated.admitted
     THEN Respond(gated, Debounced("Debounced duplicate send"))
     ELSE LET called == CallAdapter(gated, c, SendTo(b, c), SendBody(b), Undef)
          IN IF called.pc = "awaitProvider" THEN called
             ELSE Respond(called, DispatchResponse(called.result))

(***************************************************************************)
(* POST /api/schedule-sms                                                  *)
(***************************************************************************)
DefaultSchedBody == "Scheduled from Node"

Pad2(n) == PadStr(n, 2)

\* new Date(ms).toISOString(), for ms within the first day of the epoch
IsoString(ms) ==
  "1970-01-01T" \o Pad2(ms \div 3600000) \o ":" \o Pad2((ms \div 60000) % 60)
    \o ":" \o Pad2((ms \div 1000) % 60) \o "." \o PadStr(ms % 1000, 3) \o "Z"

SchedTo(b, c) == Or(b.to, c.defaultTo)
SchedBody(b) == Or(b.body, Str(DefaultSchedBody))
\* mutation: the sendAt of the request is ignored
SendAtISO_AlwaysDefault(b, now) == Str(IsoString(now + 60000))

\* req.body?.sendAt || new Date(Date.now() + 60_000).toISOString()
SendAtISO(b, now) == Or(b.sendAt, Str(IsoString(now + 60000)))
SchedKey(b, c, now) ==
  "sched|" \o ToStr(SchedTo(b, c)) \o "|" \o ToStr(SchedBody(b)) \o "|"
    \o ToStr(SendAtISO(b, now))

ScheduleSmsRec(rec, b, c, map, now, ord) ==
  LET gated == Gate([rec EXCEPT !.kind = "sched", !.body = b],
                    SchedKey(b, c, now), map, now, ord)
  IN IF ~gated.admitted
     THEN Respond(gated, Debounced("Debounced duplicate schedule"))
     ELSE LET called == CallAdapter(gated, c, SchedTo(b, c), SchedBody(b),
                                    SendAtISO(b, now))
          IN IF called.pc = "awaitProvider" THEN called
             ELSE Respond(called, DispatchResponse(called.result))

(***************************************************************************)
(* POST /api/predict                                                       *)
(***************************************************************************)
\* the numbers the model's inputs are drawn from (fixed-point)
KnownNumbers == {40000, 123000, 123456, 123457, 770000}

\* Number(v) || 0
NumberOrZero(v) ==
  CASE v.t = "number" -> v.n
    [] v.t = "boolean" -> v.n * Scale
    [] v.t = "string" ->
         IF \E n \in KnownNumbers : NumberToString(n) = v.s
         THEN CHOOSE n \in KnownNumbers : NumberToString(n) = v.s
         ELSE 0
    [] OTHER -> 0

\* Math.round of a non-negative fixed-point number, as an integer
Round(n) == (n + (Scale \div 2)) \div Scale

Max(a, b) == IF a >= b THEN a ELSE b

\* mutation: the distance has no lower limit
SafeDistance_NoFloor(severeRadius) == Round(NumberOrZero(severeRadius))

\* Math.max(6, Math.round(Number(severeRadius) || 0))
SafeDistance(severeRadius) == Max(6, Round(NumberOrZero(severeRadius)))

\* v?.toFixed?.(3) ?? v, rendered in the template literal
CoordStr(v) == IF v.t = "number" THEN ToFixed3(v.n) ELSE ToStr(v)

\* mutation: an absent radius is rendered as a number
SevereRadius_NoMarker(found) == Coalesce(found.value, Num(0))

\* ... ?? "?" of the alert branch
SevereRadius(found) == Coalesce(found.value, Str("?"))

\* mutation: the configured default recipient comes first
AlertTo_DefaultFirst(b, c) == Or(c.defaultTo, b.notify_phone)

\* req.body?.notify_phone || DEFAULT_ALERT_TO
AlertTo(b, c) == Or(b.notify_phone, c.defaultTo)

AlertBody(b, severeRadius) ==
  Str("EVACUATE NOW - area near " \o CoordStr(b.lat) \o "," \o CoordStr(b.lon)
      \o ". Move beyond " \o DecStr(SafeDistance(severeRadius))
      \o "km from impact point. Severe zone ~ " \o ToStr(severeRadius)
      \o "km. If coastal, go inland/uphill. Help: 104 - Disaster Mgmt Dept")

\* mutation: the key leaves the severe radius out
AlertKey_NoRadius(b, c, severeRadius) ==
  "alert|" \o ToStr(AlertTo(b, c)) \o "|" \o ToStr(b.lat) \o "|" \o ToStr(b.lon)

\* `alert|${to}|${req.body?.lat}|${req.body?.lon}|${severeRadius}`
AlertKey(b, c, severeRadius) ==
  "alert|" \o ToStr(AlertTo(b, c)) \o "|" \o ToStr(b.lat) \o "|" \o ToStr(b.lon)
    \o "|" \o ToStr(severeRadius)

\* the message of the TypeError raised while the broadcast payload is built
FindErrorMessage == "TypeError"

\* the handler from the settled axios.post to its next await or response
PredictRec(rec, data, c, map, now, ord) ==
  LET got == [rec EXCEPT !.upstreamOk = TRUE, !.data = data]
      found == FindSevere(data.overpressure)
  IN IF found.threw
     THEN Respond(got, PredictionFailed(Str(FindErrorMessage)))
     ELSE
       LET emitted == [Log(got, "emit") EXCEPT
                         !.summaryRadius = Coalesce(found.value, Null)]
           to == AlertTo(rec.body, c)
           severeRadius == SevereRadius(found)
       IN IF ~Truthy(data.red_alert) THEN Respond(emitted, DataResponse(data))
          ELSE IF ~Truthy(to) THEN Respond(emitted, DataResponse(data))
          ELSE
            LET gated == Gate(emitted, AlertKey(rec.body, c, severeRadius),
                              map, now, ord)
            IN IF ~gated.admitted THEN Respond(gated, DataResponse(data))
               ELSE
                 LET called == CallAdapter(gated, c, to,
                                           AlertBody(rec.body, severeRadius), Undef)
                 IN IF called.pc = "awaitProvider" THEN called
                    ELSE Respond(called, DataResponse(data))

\* the catch branch for a failed axios.post
PredictFailRec(rec, e) ==
  Respond([rec EXCEPT !.upstreamErr = e], PredictionFailed(ErrorDetails(e)))

\* mutation: a failed provider call is made again
SettledRec_Retries(rec, o) ==
  LET r == AdapterResult(o)
      got == [Log(rec, "settled") EXCEPT !.settledWith = o, !.result = r]
  IN IF ~o.ok THEN Log(got, "create")
     ELSE IF rec.kind = "predict" THEN Respond(got, DataResponse(rec.data))
     ELSE Respond(got, DispatchResponse(r))

\* the handler after the awaited adapter call has settled
SettledRec(rec, o) ==
  LET r == AdapterResult(o)
      got == [Log(rec, "settled") EXCEPT !.settledWith = o, !.result = r]
  IN IF rec.kind = "predict" THEN Respond(got, DataResponse(rec.data))
     ELSE Respond(got, DispatchResponse(r))

(***************************************************************************)
(* Inputs                                                                  *)
(***************************************************************************)
\* the provider is configured or not, a default recipient is set or not
MainConfigs == {c \in Configs : c.msid = Str("MG1")}

SendBodies ==
  {Body(to, body, Undef, Undef, Undef, Undef) :
     to \in {Undef, Str("A")}, body \in {Undef, Str("x")}}

\* sendAt absent, at half a window after the epoch, and after every reading
\* of the clock
SchedBodies ==
  {Body(Str("A"), Str("x"), at, Undef, Undef, Undef) :
     at \in {Undef, Str(IsoString(TickMs)), Str(IsoString(MaxClock + 60000))}}

PredictBodies ==
  {Body(Undef, Undef, Undef, phone, lat, Num(770000)) :
     phone \in {Undef, Str("A")}, lat \in {Num(123456), Num(123457)}}

Outcomes ==
  {Outcome(Bool(TRUE), op) :
     op \in {AbsentList, ListOf(<<Band("5 psi", Num(123000))>>),
             ListOf(<<Band("1 psi", Num(123000)), Band("5 psi", Num(40000))>>),
             ListOf(<<NullBand>>)}}
  \cup {Outcome(Bool(FALSE), op) :
          op \in {ListOf(<<Band("5 psi", Num(123000))>>), ListOf(<<NullBand>>)}}

UpstreamErrors ==
  {UpstreamError(FALSE, Undef, "timeout of 15000ms exceeded"),
   UpstreamError(TRUE, Str("Internal Server Error"),
                 "Request failed with status code 500"),
   UpstreamError(TRUE, Bool(FALSE), "Request failed with status code 500")}

(***************************************************************************)
(* Actions                                                                 *)
(***************************************************************************)
\* requests arrive in the order of their numbers
CanArrive(r) == reqs[r].pc = "idle" /\ \A q \in 1..(r - 1) : reqs[q].pc # "idle"


\* the handler segment took rec to new, reading now from Date.now(): its
\* shouldSend call, if it made one, updated the map
Commit(r, new, now) ==
  /\ reqs' = [reqs EXCEPT ![r] = new]
  /\ clock' = now
  /\ IF Has(new.trace, "shouldSend") /\ ~Has(reqs[r].trace, "shouldSend")
     THEN /\ lastSendByKey' = ShouldSendMap(lastSendByKey, new.key, now)
          /\ nextOrd' = nextOrd + 1
     ELSE UNCHANGED <<lastSendByKey, nextOrd>>
  /\ UNCHANGED cfg

SendSms(r, bodies) ==
  /\ CanArrive(r)
  /\ \E b \in bodies, now \in NowValues :
       Commit(r, SendSmsRec(reqs[r], b, cfg, lastSendByKey, now, nextOrd), now)

ScheduleSms(r, bodies) ==
  /\ CanArrive(r)
  /\ \E b \in bodies, now \in NowValues :
       Commit(r, ScheduleSmsRec(reqs[r], b, cfg, lastSendByKey, now, nextOrd), now)

\* the handler up to its awaited axios.post
Predict(r, bodies) ==
  /\ CanArrive(r)
  /\ \E b \in bodies :
       Commit(r, [Log(reqs[r], "upstream") EXCEPT
                    !.kind = "predict", !.body = b, !.pc = "awaitUpstream"],
              clock)

UpstreamReturns(r, outcomes) ==
  /\ reqs[r].pc = "awaitUpstream"
  /\ \E d \in outcomes, now \in NowValues :
       Commit(r, PredictRec(reqs[r], d, cfg, lastSendByKey, now, nextOrd), now)

UpstreamFails(r, errors) ==
  /\ reqs[r].pc = "awaitUpstream"
  /\ \E e \in errors : Commit(r, PredictFailRec(reqs[r], e), clock)

ProviderSettles(r, outcomes) ==
  /\ reqs[r].pc = "awaitProvider"
  /\ \E o \in outcomes : Commit(r, SettledRec(reqs[r], o), clock)

\* sendImmediateSMS(a) or, with a sendAt, scheduleSMS(a), called on its own:
\* the function up to its return or its awaited provider call
AdapterCallRec(rec, c, a) ==
  LET called == CallAdapter([rec EXCEPT !.kind = "call",
                                        !.body = Body(a.to, a.body, a.sendAt,
                                                      Undef, Undef, Undef)],
                            c, a.to, a.body, a.sendAt)
  IN IF called.pc = "awaitProvider" THEN called ELSE [called EXCEPT !.pc = "done"]

\* the function after the awaited provider call: its return value
AdapterSettledRec(rec, o) ==
  [Log(rec, "settled") EXCEPT !.settledWith = o, !.result = AdapterResult(o),
                              !.pc = "done"]

AdapterCall(r, args) ==
  /\ CanArrive(r)
  /\ \E a \in args : Commit(r, AdapterCallRec(reqs[r], cfg, a), clock)

AdapterReturns(r, outcomes) ==
  /\ reqs[r].pc = "awaitProvider"
  /\ reqs[r].kind = "call"
  /\ \E o \in outcomes : Commit(r, AdapterSettledRec(reqs[r], o), clock)

Start(n, configs) ==
  /\ clock = 0
  /\ lastSendByKey = [k \in {} |-> 0]
  /\ cfg \in configs
  /\ reqs = [r \in 1..n |-> Idle]
  /\ nextOrd = 1

(***************************************************************************)
(* Spec: NReq requests of every kind                                       *)
(***************************************************************************)
Init == Start(NReq, MainConfigs)

Next ==
  \/ \E r \in DOMAIN reqs : SendSms(r, SendBodies)
  \/ \E r \in DOMAIN reqs : ScheduleSms(r, SchedBodies)
  \/ \E r \in DOMAIN reqs : Predict(r, PredictBodies)
  \/ \E r \in DOMAIN reqs : UpstreamReturns(r, Outcomes)
  \/ \E r \in DOMAIN reqs : UpstreamFails(r, UpstreamErrors)
  \/ \E r \in DOMAIN reqs : ProviderSettles(r, ProviderOutcomes)

Spec == Init /\ [][Next]_vars

(***************************************************************************)
(* SpecGate: NGate manual sends to one recipient, to follow one key of the *)
(* suppression map through several calls of shouldSend                     *)
(***************************************************************************)
GateBodies ==
  {Body(Str("A"), body, Undef, Undef, Undef, Undef) : body \in {Undef, Str("x")}}

GateOutcomes == {o \in ProviderOutcomes : o.ok \/ Truthy(o.message)}

InitGate == Start(NGate, {c \in MainConfigs : c.defaultTo = Undef})

NextGate ==
  \/ \E r \in DOMAIN reqs : SendSms(r, GateBodies)
  \/ \E r \in DOMAIN reqs : ProviderSettles(r, GateOutcomes)

SpecGate == InitGate /\ [][NextGate]_vars

(***************************************************************************)
(* SpecOne: NOne requests of every kind, with every configuration of the   *)
(* environment and the wider range of request bodies, prediction outcomes  *)
(* and provider outcomes that a single invocation can meet                 *)
(***************************************************************************)
OneSendBodies ==
  {Body(to, body, Undef, Undef, Undef, Undef) :
     to \in {Undef, Str("A"), Str("")}, body \in {Undef, Str("x"), Str("")}}

OneSchedBodies ==
  {Body(to, Str("x"), at, Undef, Undef, Undef) :
     to \in {Undef, Str("A")}, at \in {Undef, Str(IsoString(TickMs))}}

OnePredictBodies ==
  {Body(Undef, Undef, Undef, phone, Num(123456), Num(770000)) :
     phone \in {Undef, Str("A"), Str("")}}

\* radius_km of a band: numbers above and below 6 and at a half, a numeric
\* string, a string that is no number, and a missing or null radius
OneRadii ==
  {Num(123000), Num(40000), Num(125000), Num(0), Str("12.3"), Str("big"),
   Undef, Null}

OneBandLists ==
  {AbsentList, NotAList, ListOf(<<>>), ListOf(<<NullBand>>),
   ListOf(<<Band("1 psi", Num(123000))>>),
   ListOf(<<Band("1 psi", Num(123000)), Band("5 psi", Num(40000)),
            Band("5 psi", Num(123000))>>),
   ListOf(<<Band("5 psi", Num(123000)), NullBand>>)}
  \cup {ListOf(<<Band("5 psi", r)>>) : r \in OneRadii}

OneOutcomes ==
  {Outcome(red, op) : red \in {Bool(TRUE), Bool(FALSE)}, op \in OneBandLists}

\* also an Error thrown with an empty message
OneProviderOutcomes ==
  ProviderOutcomes
    \cup {[ok |-> FALSE, sid |-> "", message |-> Str(""), str |-> "Error"]}

InitOne == Start(NOne, Configs)

NextOne ==
  \/ \E r \in DOMAIN reqs : SendSms(r, OneSendBodies)
  \/ \E r \in DOMAIN reqs : ScheduleSms(r, OneSchedBodies)
  \/ \E r \in DOMAIN reqs : Predict(r, OnePredictBodies)
  \/ \E r \in DOMAIN reqs : UpstreamReturns(r, OneOutcomes)
  \/ \E r \in DOMAIN reqs : UpstreamFails(r, UpstreamErrors)
  \/ \E r \in DOMAIN reqs : ProviderSettles(r, OneProviderOutcomes)

SpecOne == InitOne /\ [][NextOne]_vars

(***************************************************************************)
(* SpecLive: SpecOne with the progress the code's scheduling gives. The    *)
(* awaited axios.post settles, by its 15 s timeout at the latest; nothing  *)
(* in the code bounds the awaited provider call, and requests arrive or    *)
(* not as the clients choose.                                              *)
(***************************************************************************)
UpstreamSettles ==
  \E r \in DOMAIN reqs :
    UpstreamReturns(r, OneOutcomes) \/ UpstreamFails(r, UpstreamErrors)

SpecLive == SpecOne /\ WF_vars(UpstreamSettles)

(***************************************************************************)
(* SpecAdapter: NOne calls of sendImmediateSMS / scheduleSMS with every    *)
(* combination of present, empty and absent arguments, under every         *)
(* configuration of the environment                                        *)
(***************************************************************************)
AdapterArgs ==
  [to : {Undef, Str(""), Str("A")}, body : {Undef, Str(""), Str("x")},
   sendAt : {Undef, Str(IsoString(TickMs))}]

InitAdapter == Start(NOne, Configs)

NextAdapter ==
  \/ \E r \in DOMAIN reqs : AdapterCall(r, AdapterArgs)
  \/ \E r \in DOMAIN reqs : AdapterReturns(r, OneProviderOutcomes)

SpecAdapter == InitAdapter /\ [][NextAdapter]_vars

(***************************************************************************)
(* SpecKeys: NReq requests whose fields contain the delimiter of the keys  *)
(* and the texts that absent values are rendered as                        *)
(***************************************************************************)
KeyConfigs == {c \in MainConfigs : c.client /\ c.defaultTo = Undef}

KeySendBodies ==
  {Body(to, body, Undef, Undef, Undef, Undef) :
     to \in {Undef, Str("undefined"), Str("A"), Str("A|B")},
     body \in {Str("x"), Str("B|x")}}

KeySchedBodies ==
  {Body(Str("A"), body, at, Undef, Undef, Undef) :
     body \in {Str("x"), Str("x|1970-01-01T00:00:45.000Z")},
     at \in {Str(IsoString(TickMs)), Str("tomorrow")}}

KeyPredictBodies ==
  {Body(Undef, Undef, Undef, Str("A"), lat, Num(770000)) :
     lat \in {Num(123456), Str("12.3456")}}

KeyOutcomes ==
  {Outcome(Bool(TRUE), op) :
     op \in {AbsentList, ListOf(<<Band("5 psi", Str("?"))>>),
             ListOf(<<Band("5 psi", Num(123000))>>)}}

KeyProviderOutcomes == {o \in ProviderOutcomes : o.ok}

InitKeys == Start(NReq, KeyConfigs)

NextKeys ==
  \/ \E r \in DOMAIN reqs : SendSms(r, KeySendBodies)
  \/ \E r \in DOMAIN reqs : ScheduleSms(r, KeySchedBodies)
  \/ \E r \in DOMAIN reqs : Predict(r, KeyPredictBodies)
  \/ \E r \in DOMAIN reqs : UpstreamReturns(r, KeyOutcomes)
  \/ \E r \in DOMAIN reqs : UpstreamFails(r, UpstreamErrors)
  \/ \E r \in DOMAIN reqs : ProviderSettles(r, KeyProviderOutcomes)

SpecKeys == InitKeys /\ [][NextKeys]_vars

(***************************************************************************)
(* Vocabulary of the properties                                            *)
(***************************************************************************)
Checked(r) == Has(reqs[r].trace, "shouldSend")
Admitted(r) == Checked(r) /\ reqs[r].admitted
Suppressed(r) == Checked(r) /\ ~reqs[r].admitted
Created(r) == Count(reqs[r].trace, "create")
Emitted(r) == Count(reqs[r].trace, "emit")
Answered(r) == reqs[r].res.status # 0

\* r calls shouldSend in this step
ChecksNow(r) == ~Checked(r) /\ Has(reqs'[r].trace, "shouldSend")

\* r1 and r2 are manual sends with the same recipient and body, r2 calling
\* shouldSend after r1 and less than 90 s later
SendPair(r1, r2) ==
  /\ reqs[r1].kind = "send" /\ reqs[r2].kind = "send"
  /\ Checked(r1) /\ Checked(r2)
  /\ SendTo(reqs[r1].body, cfg) = SendTo(reqs[r2].body, cfg)
  /\ SendBody(reqs[r1].body) = SendBody(reqs[r2].body)
  /\ reqs[r1].ord < reqs[r2].ord
  /\ reqs[r2].at - reqs[r1].at >= 0
  /\ reqs[r2].at - reqs[r1].at < DEBOUNCE_MS

SameKeyInWindow(r1, r2) ==
  /\ r1 # r2 /\ Checked(r1) /\ Checked(r2)
  /\ reqs[r1].key = reqs[r2].key
  /\ reqs[r1].at - reqs[r2].at < DEBOUNCE_MS
  /\ reqs[r2].at - reqs[r1].at < DEBOUNCE_MS

\* C2: of the requests that derive one key and call shouldSend within one
\* 90 s window at most one is admitted, under every interleaving of the
\* handlers; a request that arrives while the admitted one still awaits the
\* provider is suppressed.
C2_AtMostOneAdmitted ==
  \A r1, r2 \in DOMAIN reqs :
    SameKeyInWindow(r1, r2) => ~(Admitted(r1) /\ Admitted(r2))

C2_Witness ==
  \E r1, r2 \in DOMAIN reqs :
    /\ SameKeyInWindow(r1, r2)
    /\ reqs[r1].kind = "predict" /\ reqs[r2].kind = "predict"
    /\ Admitted(r1) /\ reqs[r1].pc = "awaitProvider"
    /\ Suppressed(r2) /\ reqs[r2].ord > reqs[r1].ord

(***************************************************************************)
(* C3, C4, C5: single calls of shouldSend                                  *)
(***************************************************************************)
\* the key and the time of the call of shouldSend r makes in this step
KeyNow(r) == reqs'[r].key
TimeNow(r) == reqs'[r].at

\* C3: a call of shouldSend(key) less than 90 s after the timestamp stored
\* for key returns false and leaves the stored timestamp (and the whole map)
\* as it was, so suppressed attempts never extend the window.
C3_SuppressedLeavesTimestamp ==
  [][\A r \in DOMAIN reqs :
       (/\ ChecksNow(r)
        /\ KeyNow(r) \in DOMAIN lastSendByKey
        /\ TimeNow(r) - lastSendByKey[KeyNow(r)] < DEBOUNCE_MS)
       => /\ ~reqs'[r].admitted
          /\ lastSendByKey' = lastSendByKey]_vars

\* two suppressed calls follow an admission, the second of them later than
\* the first
C3_Witness ==
  \E r1, r2, r3 \in DOMAIN reqs :
    /\ reqs[r1].key = reqs[r2].key /\ reqs[r2].key = reqs[r3].key
    /\ Admitted(r1) /\ Suppressed(r2) /\ Suppressed(r3)
    /\ reqs[r1].ord < reqs[r2].ord /\ reqs[r2].ord < reqs[r3].ord
    /\ reqs[r1].at < reqs[r3].at
    /\ lastSendByKey[reqs[r1].key] = reqs[r1].at

\* C4: a call of shouldSend(key) 90 s or more after the timestamp stored for
\* key (exactly 90 s included) returns true and stores the time of the call.
C4_AdmittedAfterWindow ==
  [][\A r \in DOMAIN reqs :
       (/\ ChecksNow(r)
        /\ KeyNow(r) \in DOMAIN lastSendByKey
        /\ TimeNow(r) - lastSendByKey[KeyNow(r)] >= DEBOUNCE_MS)
       => /\ reqs'[r].admitted
          /\ lastSendByKey'[KeyNow(r)] = TimeNow(r)]_vars

\* an admission, a suppressed call, and an admission exactly 90 s after the
\* first one
C4_Witness ==
  \E r1, r2, r3 \in DOMAIN reqs :
    /\ reqs[r1].key = reqs[r2].key /\ reqs[r2].key = reqs[r3].key
    /\ Admitted(r1) /\ Suppressed(r2) /\ Admitted(r3)
    /\ reqs[r1].ord < reqs[r2].ord /\ reqs[r2].ord < reqs[r3].ord
    /\ reqs[r3].at - reqs[r1].at = DEBOUNCE_MS
    /\ lastSendByKey[reqs[r3].key] = reqs[r3].at

\* C5, as stated: a call of shouldSend(key) for a key with no entry in the
\* map returns true and records the time of the call, at every value of the
\* clock.
C5_AbsentKeyAdmitted ==
  [][\A r \in DOMAIN reqs :
       (ChecksNow(r) /\ KeyNow(r) \notin DOMAIN lastSendByKey)
       => /\ reqs'[r].admitted
          /\ KeyNow(r) \in DOMAIN lastSendByKey'
          /\ lastSendByKey'[KeyNow(r)] = TimeNow(r)]_vars

(***************************************************************************)
(* C6                                                                      *)
(***************************************************************************)
\* r1 and r2 are manual sends to one recipient with different bodies, less
\* than 90 s apart, and no other request derives the key of either
DifferentBodies(r1, r2) ==
  /\ reqs[r1].kind = "send" /\ reqs[r2].kind = "send"
  /\ Checked(r1) /\ Checked(r2)
  /\ SendTo(reqs[r1].body, cfg) = SendTo(reqs[r2].body, cfg)
  /\ SendBody(reqs[r1].body) # SendBody(reqs[r2].body)
  /\ reqs[r1].ord < reqs[r2].ord
  /\ reqs[r2].at - reqs[r1].at < DEBOUNCE_MS
  /\ reqs[r1].at - reqs[r2].at < DEBOUNCE_MS
  /\ \A q \in DOMAIN reqs \ {r1, r2} : reqs[q].key \notin {reqs[r1].key, reqs[r2].key}

\* C6, as stated: two manual sends to one recipient with different bodies,
\* less than 90 s apart, are both admitted; the second is not answered 429
\* and reaches the adapter.
C6_DifferentBodiesAdmitted ==
  \A r1, r2 \in DOMAIN reqs :
    DifferentBodies(r1, r2) =>
      /\ Admitted(r1) /\ Admitted(r2)
      /\ reqs[r2].res.status # 429
      /\ Has(reqs[r2].trace, "adapter")

(***************************************************************************)
(* C7, C8, C9, C10: POST /api/predict                                      *)
(***************************************************************************)
Before(trace, a, b) == Has(trace, b) => (First(trace, a) > 0 /\ First(trace, a) < First(trace, b))

\* C7, as stated: an invocation whose upstream call succeeded emits exactly
\* one broadcast, before its shouldSend call and before any provider call.
C7_OneBroadcastFirst ==
  \A r \in DOMAIN reqs :
    reqs[r].upstreamOk =>
      /\ Emitted(r) = 1
      /\ Before(reqs[r].trace, "emit", "shouldSend")
      /\ Before(reqs[r].trace, "emit", "create")

\* C8, as stated: for an outcome whose red_alert is false the invocation
\* makes no provider call and no shouldSend call and publishes the broadcast
\* exactly once before it responds.
C8_NoAlertStillBroadcasts ==
  \A r \in DOMAIN reqs :
    reqs[r].upstreamOk /\ ~Truthy(reqs[r].data.red_alert) =>
      /\ Created(r) = 0
      /\ ~Checked(r)
      /\ Emitted(r) = 1
      /\ Before(reqs[r].trace, "emit", "respond")

\* r's awaited upstream call fails in this step
FailsNow(r) == reqs[r].pc = "awaitUpstream" /\ reqs'[r].pc = "done" /\ ~reqs'[r].upstreamOk

\* no broadcast, no shouldSend, no provider call, the map untouched, and the
\* 400 envelope
FailureHandled(r) ==
  /\ reqs'[r].trace = <<"upstream", "respond">>
  /\ lastSendByKey' = lastSendByKey
  /\ reqs'[r].res.status = 400
  /\ reqs'[r].res.tag = "error"
  /\ reqs'[r].res.error = "Prediction failed"

\* C9, as stated: when the upstream call fails the invocation emits nothing,
\* calls neither shouldSend nor the provider, leaves the map unchanged and
\* answers 400 with details = the upstream response body when one exists, the
\* error message otherwise.
C9_DetailsBodyWhenExists ==
  [][\A r \in DOMAIN reqs :
       FailsNow(r) =>
         /\ FailureHandled(r)
         /\ reqs'[r].res.details =
              IF reqs'[r].upstreamErr.hasResponse
              THEN reqs'[r].upstreamErr.data
              ELSE Str(reqs'[r].upstreamErr.message)]_vars

\* C9, amended: as C9, with details = the upstream response body when one
\* exists and is truthy (not false, 0, "" or null), the error message
\* otherwise.
C9_DetailsBodyWhenTruthy ==
  [][\A r \in DOMAIN reqs :
       FailsNow(r) =>
         /\ FailureHandled(r)
         /\ reqs'[r].res.details =
              IF reqs'[r].upstreamErr.hasResponse /\ Truthy(reqs'[r].upstreamErr.data)
              THEN reqs'[r].upstreamErr.data
              ELSE Str(reqs'[r].upstreamErr.message)]_vars

\* a failed upstream call with a response body has been answered with that
\* body, while the map holds an admission of another request
C9_Witness ==
  \E r \in DOMAIN reqs :
    /\ reqs[r].kind = "predict" /\ reqs[r].pc = "done" /\ ~reqs[r].upstreamOk
    /\ reqs[r].upstreamErr.hasResponse /\ Truthy(reqs[r].upstreamErr.data)
    /\ reqs[r].res.status = 400
    /\ reqs[r].res.details = reqs[r].upstreamErr.data
    /\ DOMAIN lastSendByKey # {}

\* C10, as stated: whenever the upstream call succeeded the response is HTTP
\* success carrying exactly the upstream outcome, on every SMS path.
C10_OutcomeReturned ==
  \A r \in DOMAIN reqs :
    reqs[r].upstreamOk /\ Answered(r) =>
      /\ reqs[r].res.status = 200
      /\ reqs[r].res.tag = "data"
      /\ reqs[r].res.data = reqs[r].data

(***************************************************************************)
(* C11                                                                     *)
(***************************************************************************)
\* C11, as stated: once the upstream call of a POST /api/predict invocation
\* has succeeded, its response is eventually sent, also when the provider
\* call the invocation made never completes.
C11_ResponseNotBlocked ==
  \A r \in 1..NOne : reqs[r].upstreamOk ~> Answered(r)

(***************************************************************************)
(* C12, C13: red alerts that send no SMS                                   *)
(***************************************************************************)
\* the severe radius of the alert branch of r
RadiusOf(r) == SevereRadius(FindSevere(reqs[r].data.overpressure))

\* r is a prediction whose upstream call succeeded with a red alert
RedAlert(r) ==
  /\ reqs[r].kind = "predict"
  /\ reqs[r].upstreamOk
  /\ Truthy(reqs[r].data.red_alert)

\* r1 and r2 are red alerts with one recipient, lat, lon and severe radius,
\* r1 admitted and r2 calling shouldSend after r1 and less than 90 s later
AlertPair(r1, r2) ==
  /\ RedAlert(r1) /\ RedAlert(r2)
  /\ ~FindSevere(reqs[r1].data.overpressure).threw
  /\ ~FindSevere(reqs[r2].data.overpressure).threw
  /\ AlertTo(reqs[r1].body, cfg) = AlertTo(reqs[r2].body, cfg)
  /\ reqs[r1].body.lat = reqs[r2].body.lat
  /\ reqs[r1].body.lon = reqs[r2].body.lon
  /\ RadiusOf(r1) = RadiusOf(r2)
  /\ Admitted(r1) /\ Checked(r2)
  /\ reqs[r1].ord < reqs[r2].ord
  /\ reqs[r2].at - reqs[r1].at >= 0
  /\ reqs[r2].at - reqs[r1].at < DEBOUNCE_MS

C13_NoRecipientNoDispatch ==
  \A r \in DOMAIN reqs :
    (/\ RedAlert(r)
     /\ reqs[r].body.notify_phone = Undef
     /\ cfg.defaultTo = Undef)
    => /\ Created(r) = 0
       /\ ~Has(reqs[r].trace, "adapter")
       /\ ~Checked(r)
       /\ reqs[r].res.status = 200
       /\ reqs[r].res.tag = "data"
       /\ reqs[r].res.data = reqs[r].data

(***************************************************************************)
(* C14, C15, C16: the recipient and the body of the alert SMS               *)
(***************************************************************************)
\* the suppression key of an alert to recipient to
KeyFor(to, b, radius) ==
  "alert|" \o ToStr(to) \o "|" \o ToStr(b.lat) \o "|" \o ToStr(b.lon) \o "|"
    \o ToStr(radius)

\* the request body carries the field
Present(v) == v.t # "undefined"

\* the alert of r went to recipient to: in its key and, when the provider
\* was called, in the message
SentTo(r, to) ==
  /\ reqs[r].key = KeyFor(to, reqs[r].body, RadiusOf(r))
  /\ Created(r) = 1 => reqs[r].sms.to = to

\* C14, as stated: the recipient of a red alert, in the SMS and in the
\* suppression key, is notify_phone whenever the request carries one, and
\* the configured default only when it carries none.
C14_RecipientWhenPresent ==
  \A r \in DOMAIN reqs :
    reqs[r].kind = "predict" /\ Checked(r) =>
      SentTo(r, IF Present(reqs[r].body.notify_phone)
                THEN reqs[r].body.notify_phone ELSE cfg.defaultTo)

\* C14, amended: the recipient of a red alert, in the SMS and in the
\* suppression key, is notify_phone whenever the request carries a truthy
\* one (a non-empty string), and the configured default when notify_phone
\* is absent or falsy (the empty string).
C14_RecipientWhenTruthy ==
  \A r \in DOMAIN reqs :
    reqs[r].kind = "predict" /\ Checked(r) =>
      SentTo(r, IF Truthy(reqs[r].body.notify_phone)
                THEN reqs[r].body.notify_phone ELSE cfg.defaultTo)

\* an alert went to notify_phone although a default recipient is configured
C14_Witness ==
  \E r \in DOMAIN reqs :
    /\ reqs[r].kind = "predict" /\ Created(r) = 1
    /\ reqs[r].body.notify_phone = Str("A")
    /\ cfg.defaultTo = Str("D")
    /\ reqs[r].sms.to = Str("A")
    /\ reqs[r].key = KeyFor(Str("A"), reqs[r].body, RadiusOf(r))

\* the text of an alert for the coordinates of b that names dist km as the
\* distance to move beyond and radius as the severe zone
AlertText(b, dist, radius) ==
  Str("EVACUATE NOW - area near " \o CoordStr(b.lat) \o "," \o CoordStr(b.lon)
      \o ". Move beyond " \o DecStr(dist)
      \o "km from impact point. Severe zone ~ " \o radius
      \o "km. If coastal, go inland/uphill. Help: 104 - Disaster Mgmt Dept")

\* v is a number or a string that reads as one
IsNumeric(v) ==
  \/ v.t = "number"
  \/ v.t = "string" /\ \E n \in KnownNumbers : NumberToString(n) = v.s

NumericValue(v) ==
  IF v.t = "number" THEN v.n
  ELSE CHOOSE n \in KnownNumbers : NumberToString(n) = v.s

\* the integer nearest to the fixed-point number n, a half rounded up
Nearest(n) ==
  CHOOSE d \in 0..((n \div Scale) + 1) :
    (2 * d * Scale) - Scale <= 2 * n /\ 2 * n < (2 * d * Scale) + Scale

\* max(6, round(r)) for a numeric radius, 6 for any other
ExpectedDistance(radius) ==
  IF IsNumeric(radius) /\ Nearest(NumericValue(radius)) > 6
  THEN Nearest(NumericValue(radius))
  ELSE 6

\* C15: the SMS body of every red alert names max(6, round(r)) km as the
\* distance to move beyond when the severe radius r is numeric (a number or
\* a string that reads as one), never less than 6, and 6 km when the radius
\* is not numeric or absent.
C15_SafeDistanceFigure ==
  \A r \in DOMAIN reqs :
    reqs[r].kind = "predict" /\ Created(r) = 1 =>
      /\ reqs[r].sms.body =
           AlertText(reqs[r].body, ExpectedDistance(RadiusOf(r)), ToStr(RadiusOf(r)))
      /\ ExpectedDistance(RadiusOf(r)) >= 6

\* an alert for a severe radius of 12.3 km names 12 km
C15_Witness ==
  \E r \in DOMAIN reqs :
    /\ reqs[r].kind = "predict" /\ Created(r) = 1
    /\ RadiusOf(r) = Num(123000)
    /\ reqs[r].sms.body = AlertText(reqs[r].body, 12, "12.3")

\* the "5 psi" bands of a band list
SevereBands(op) ==
  {i \in 1..Len(op.bands) : ~op.bands[i].isNull /\ op.bands[i].threshold = "5 psi"}

HasSevereRadius(op) ==
  /\ SevereBands(op) # {}
  /\ LET i == CHOOSE i \in SevereBands(op) : \A j \in SevereBands(op) : i <= j
     IN op.bands[i].radius_km.t \notin {"undefined", "null"}

\* the radius of the first "5 psi" band in list order
FirstSevereRadius(op) ==
  LET i == CHOOSE i \in SevereBands(op) : \A j \in SevereBands(op) : i <= j
  IN op.bands[i].radius_km

\* C16: when the band list of a red-alert outcome has no "5 psi" band with a
\* radius, or there is no band list, the broadcast carries a null severe
\* radius and the SMS body renders the radius as "?" with 6 km as the
\* distance; otherwise the broadcast and the SMS body both carry the radius
\* of the first "5 psi" band in list order.
C16_RadiusOfFirstSevereBand ==
  \A r \in DOMAIN reqs :
    RedAlert(r) =>
      LET op == reqs[r].data.overpressure
      IN /\ Emitted(r) = 1 =>
              reqs[r].summaryRadius =
                IF HasSevereRadius(op) THEN FirstSevereRadius(op) ELSE Null
         /\ Created(r) = 1 =>
              reqs[r].sms.body =
                IF HasSevereRadius(op)
                THEN AlertText(reqs[r].body, ExpectedDistance(FirstSevereRadius(op)),
                               ToStr(FirstSevereRadius(op)))
                ELSE AlertText(reqs[r].body, 6, "?")

\* an alert for a band list without a "5 psi" band: null in the broadcast,
\* the marker and 6 km in the SMS
C16_Witness ==
  \E r \in DOMAIN reqs :
    /\ RedAlert(r) /\ Emitted(r) = 1 /\ Created(r) = 1
    /\ reqs[r].data.overpressure.kind = "list"
    /\ Len(reqs[r].data.overpressure.bands) > 0
    /\ SevereBands(reqs[r].data.overpressure) = {}
    /\ reqs[r].summaryRadius = Null
    /\ reqs[r].sms.body = AlertText(reqs[r].body, 6, "?")

(***************************************************************************)
(* C17, C18, C19: the adapter                                              *)
(***************************************************************************)
\* the recipient and the body r's handler passes to the adapter
AdapterTo(r) ==
  CASE reqs[r].kind = "send" -> SendTo(reqs[r].body, cfg)
    [] reqs[r].kind = "sched" -> SchedTo(reqs[r].body, cfg)
    [] OTHER -> AlertTo(reqs[r].body, cfg)

AdapterBody(r) ==
  CASE reqs[r].kind = "send" -> SendBody(reqs[r].body)
    [] reqs[r].kind = "sched" -> SchedBody(reqs[r].body)
    [] OTHER -> AlertBody(reqs[r].body, RadiusOf(r))

\* credentials and messaging-service id are set, recipient and body are
\* non-empty
Dispatchable(r) ==
  /\ cfg.client /\ Truthy(cfg.msid)
  /\ Truthy(AdapterTo(r)) /\ Truthy(AdapterBody(r))

\* C17: the provider is called only when it is configured and the recipient
\* and the body of the call are non-empty; an adapter call that lacks any of
\* these returns a failed result and makes no provider call.
C17_ProviderOnlyWhenValid ==
  \A r \in DOMAIN reqs :
    /\ Created(r) >= 1 =>
         /\ Dispatchable(r)
         /\ reqs[r].sms.to = AdapterTo(r)
         /\ reqs[r].sms.body = AdapterBody(r)
    /\ Has(reqs[r].trace, "adapter") /\ ~Dispatchable(r) =>
         /\ Created(r) = 0
         /\ ~reqs[r].result.ok
         /\ reqs[r].result.error # ""

\* a configured provider is not called for a send without a recipient
C17_Witness ==
  \E r \in DOMAIN reqs :
    /\ Has(reqs[r].trace, "adapter")
    /\ cfg.client /\ Truthy(cfg.msid)
    /\ ~Truthy(AdapterTo(r))
    /\ Created(r) = 0
    /\ reqs[r].result = Failed("Missing \"to\" number")

\* C18: an invocation calls the adapter at most once and the adapter calls
\* the provider at most once; when the provider call has failed the handler
\* responds without another call.
C18_AtMostOneProviderCall ==
  \A r \in DOMAIN reqs :
    /\ Count(reqs[r].trace, "adapter") <= 1
    /\ Created(r) <= 1
    /\ Has(reqs[r].trace, "settled") =>
         /\ Created(r) = 1
         /\ Count(reqs[r].trace, "settled") = 1
         /\ reqs[r].pc = "done"

\* a provider call has failed and its invocation is finished
C18_Witness ==
  \E r \in DOMAIN reqs :
    /\ Has(reqs[r].trace, "settled")
    /\ ~reqs[r].settledWith.ok /\ ~reqs[r].result.ok
    /\ Created(r) = 1
    /\ reqs[r].pc = "done"

\* the adapter call of r has returned
Returned(r) == Has(reqs[r].trace, "adapter") /\ reqs[r].pc # "awaitProvider"

\* the result is {ok: true, sid} for a provider call that succeeded and
\* {ok: false, error} with a description otherwise
WellFormedResult(r) ==
  IF Has(reqs[r].trace, "settled") /\ reqs[r].settledWith.ok
  THEN reqs[r].result = Sent(reqs[r].settledWith.sid)
  ELSE /\ ~reqs[r].result.ok
       /\ reqs[r].result.sid = ""
       /\ reqs[r].result.error # ""

\* C19, as stated: every adapter call returns a result, {ok: true, sid}
\* exactly when the provider call succeeded and {ok: false, error}
\* otherwise, the error of a failed provider call being the message of the
\* error the provider threw.
C19_ErrorIsOwnMessage ==
  \A r \in DOMAIN reqs :
    Returned(r) =>
      /\ WellFormedResult(r)
      /\ Has(reqs[r].trace, "settled") /\ ~reqs[r].settledWith.ok =>
           /\ reqs[r].settledWith.message.t = "string"
           /\ reqs[r].result.error = reqs[r].settledWith.message.s

\* C19, amended: as C19, the error of a failed provider call being the
\* message of the thrown error when it has a non-empty one and the string
\* form of the thrown value otherwise.
C19_ErrorIsMessageOrString ==
  \A r \in DOMAIN reqs :
    Returned(r) =>
      /\ WellFormedResult(r)
      /\ Has(reqs[r].trace, "settled") /\ ~reqs[r].settledWith.ok =>
           reqs[r].result.error =
             IF Truthy(reqs[r].settledWith.message)
             THEN reqs[r].settledWith.message.s
             ELSE reqs[r].settledWith.str

\* a provider call has failed with a message and the result carries it
C19_Witness ==
  \E r \in DOMAIN reqs :
    /\ Returned(r) /\ Has(reqs[r].trace, "settled")
    /\ reqs[r].settledWith.message = Str("Invalid number")
    /\ reqs[r].result = Failed("Invalid number")

(***************************************************************************)
(* C20                                                                     *)
(***************************************************************************)
\* C20: a manual send or schedule request is answered once, and only a
\* request still awaiting its provider call is unanswered; the answer is
\* 429 exactly when shouldSend suppressed the request, which then called
\* neither the adapter nor the provider, 400 with the adapter's result when
\* that result has ok = false, and 200 with the adapter's result otherwise.
C20_OneResponsePerRequest ==
  \A r \in DOMAIN reqs :
    reqs[r].kind \in {"send", "sched"} =>
      /\ Count(reqs[r].trace, "respond") = (IF Answered(r) THEN 1 ELSE 0)
      /\ ~Answered(r) =>
           reqs[r].pc = "awaitProvider" /\ Admitted(r) /\ Created(r) = 1
      /\ Answered(r) =>
           /\ reqs[r].pc = "done"
           /\ reqs[r].res.status = 429 <=> Suppressed(r)
           /\ Suppressed(r) =>
                /\ ~Has(reqs[r].trace, "adapter") /\ Created(r) = 0
                /\ reqs[r].res.tag = "debounce"
           /\ Admitted(r) =>
                /\ Returned(r)
                /\ reqs[r].res.tag = "dispatch"
                /\ reqs[r].res.result = reqs[r].result
                /\ reqs[r].res.status = (IF reqs[r].result.ok THEN 200 ELSE 400)

\* a schedule request answered 400 with the failure of its provider call,
\* and a request suppressed after it
C20_Witness ==
  \E r1, r2 \in DOMAIN reqs :
    /\ reqs[r1].kind = "sched" /\ Created(r1) = 1
    /\ reqs[r1].res.status = 400 /\ reqs[r1].res.result = reqs[r1].result
    /\ reqs[r2].kind = "sched" /\ reqs[r2].key = reqs[r1].key
    /\ Suppressed(r2) /\ reqs[r2].res.status = 429

(***************************************************************************)
(* C21, C22                                                                *)
(***************************************************************************)
Configured == cfg.client /\ Truthy(cfg.msid)

\* C21, as stated: when the provider is not configured every adapter call,
\* from a manual send, a manual schedule or a red alert, returns the
\* not-configured failure without a provider call, and a POST /api/predict
\* whose upstream call succeeded still broadcasts once and is answered 200
\* with the prediction outcome.
C21_UnconfiguredStillPredicts ==
  \A r \in DOMAIN reqs :
    ~Configured =>
      /\ Created(r) = 0
      /\ Has(reqs[r].trace, "adapter") =>
           reqs[r].result = Failed("Twilio not configured")
      /\ reqs[r].kind = "predict" /\ reqs[r].upstreamOk =>
           /\ Emitted(r) = 1
           /\ reqs[r].res.status = 200
           /\ reqs[r].res.tag = "data"
           /\ reqs[r].res.data = reqs[r].data

\* the sendAt of the request is a moment not after the handler's reading of
\* the clock
NotInFuture(r) ==
  \E t \in NowValues :
    reqs[r].body.sendAt = Str(IsoString(t)) /\ t <= reqs[r].at

ResolvedSendAt(r) == SendAtISO(reqs[r].body, reqs[r].at)

\* r1 and r2 are manual schedules with one recipient and body, r2 calling
\* shouldSend after r1 and less than 90 s later
SchedPair(r1, r2) ==
  /\ reqs[r1].kind = "sched" /\ reqs[r2].kind = "sched"
  /\ Checked(r1) /\ Checked(r2)
  /\ SchedTo(reqs[r1].body, cfg) = SchedTo(reqs[r2].body, cfg)
  /\ SchedBody(reqs[r1].body) = SchedBody(reqs[r2].body)
  /\ reqs[r1].ord < reqs[r2].ord
  /\ reqs[r2].at - reqs[r1].at >= 0
  /\ reqs[r2].at - reqs[r1].at < DEBOUNCE_MS

\* C23, as stated: of two manual schedules with the same recipient, body and
\* sendAt within 90 s the first is admitted and the second answered 429;
\* two that differ only in sendAt are both admitted.
C23_SchedulePairs ==
  \A r1, r2 \in DOMAIN reqs :
    SchedPair(r1, r2) =>
      IF ResolvedSendAt(r1) = ResolvedSendAt(r2)
      THEN Admitted(r1) /\ Suppressed(r2) /\ reqs[r2].res.status = 429
      ELSE Admitted(r1) /\ Admitted(r2)

\* r1 and r2 are requests of one kind with the same content
SameContent(r1, r2) ==
  /\ r1 # r2
  /\ reqs[r1].kind = reqs[r2].kind
  /\ Checked(r1) /\ Checked(r2)
  /\ reqs[r1].body = reqs[r2].body
  /\ reqs[r1].kind = "predict" => reqs[r1].data = reqs[r2].data

\* C24, as stated: two requests of one kind with identical content derive
\* the same key, whatever the clock reads when each is handled.
C24_KeyIgnoresClock ==
  \A r1, r2 \in DOMAIN reqs :
    SameContent(r1, r2) => reqs[r1].key = reqs[r2].key

(***************************************************************************)
(* C25, C26, C27: the suppression map                                      *)
(***************************************************************************)
\* r is admitted by the call of shouldSend it makes in this step
AdmittedNow(r) == ChecksNow(r) /\ reqs'[r].admitted

\* C25: in every step the suppression map keeps all its entries; an entry
\* appears or changes only when a call of shouldSend on its key is admitted,
\* and then holds the time of that call; no stored timestamp decreases.
C25_MapOnlyGrows ==
  [][/\ DOMAIN lastSendByKey \subseteq DOMAIN lastSendByKey'
     /\ \A k \in DOMAIN lastSendByKey' :
          (k \notin DOMAIN lastSendByKey \/ lastSendByKey'[k] # lastSendByKey[k])
          => \E r \in DOMAIN reqs :
               /\ AdmittedNow(r) /\ KeyNow(r) = k
               /\ lastSendByKey'[k] = TimeNow(r)
     /\ \A k \in DOMAIN lastSendByKey :
          lastSendByKey'[k] >= lastSendByKey[k]]_vars

\* the map holds two keys, one of them overwritten by a second admission
C25_Witness ==
  \E r1, r2 \in DOMAIN reqs :
    /\ reqs[r1].key = reqs[r2].key
    /\ Admitted(r1) /\ Admitted(r2)
    /\ reqs[r1].ord < reqs[r2].ord
    /\ lastSendByKey[reqs[r2].key] = reqs[r2].at
    /\ reqs[r2].at > reqs[r1].at
    /\ Cardinality(DOMAIN lastSendByKey) = 2

\* map1 and map2 agree on key k: the same entry, the same answer of
\* shouldSend at every reading of the clock
SameForKey(map1, map2, k) ==
  /\ k \in DOMAIN map1 <=> k \in DOMAIN map2
  /\ k \in DOMAIN map1 => map1[k] = map2[k]
  /\ \A now \in NowValues :
       ShouldSendResult(map1, k, now) = ShouldSendResult(map2, k, now)

\* C26: a step changes the suppression map only when it is an admitting call
\* of shouldSend, and then only in the entry of the key of that call: a
\* suppressed call, an adapter call, a provider call settling, a broadcast
\* and a response leave the map as it was, and for every other key the
\* entry and the answer of shouldSend stay the same.
C26_OnlyAdmissionWrites ==
  [][/\ (\A r \in DOMAIN reqs : ~AdmittedNow(r)) => lastSendByKey' = lastSendByKey
     /\ \A r \in DOMAIN reqs :
          AdmittedNow(r) =>
            \A k \in ((DOMAIN lastSendByKey) \cup (DOMAIN lastSendByKey')
                        \cup {reqs[q].key : q \in DOMAIN reqs}) \ {KeyNow(r)} :
              SameForKey(lastSendByKey, lastSendByKey', k)]_vars

\* two keys were admitted at different times and the provider call of one
\* of the requests has settled since
C26_Witness ==
  \E r1, r2 \in DOMAIN reqs :
    /\ reqs[r1].key # reqs[r2].key
    /\ Admitted(r1) /\ Admitted(r2)
    /\ reqs[r1].ord < reqs[r2].ord
    /\ Has(reqs[r1].trace, "settled") /\ Has(reqs[r2].trace, "settled")
    /\ lastSendByKey[reqs[r1].key] = reqs[r1].at
    /\ lastSendByKey[reqs[r2].key] = reqs[r2].at
    /\ reqs[r1].at # reqs[r2].at

\* C27: any two admissions of one key are at least 90 s apart, the later
\* call reading a clock at least 90 s after the earlier one.
C27_AdmissionsApart ==
  \A r1, r2 \in DOMAIN reqs :
    (/\ Admitted(r1) /\ Admitted(r2)
     /\ reqs[r1].key = reqs[r2].key
     /\ reqs[r1].ord < reqs[r2].ord)
    => reqs[r2].at - reqs[r1].at >= DEBOUNCE_MS

\* the clock never went back between the calls, and one key was admitted
\* twice
C27_Witness ==
  /\ \A q1, q2 \in DOMAIN reqs :
       Checked(q1) /\ Checked(q2) /\ reqs[q1].ord < reqs[q2].ord
       => reqs[q1].at <= reqs[q2].at
  /\ \E r1, r2 \in DOMAIN reqs :
       /\ Admitted(r1) /\ Admitted(r2)
       /\ reqs[r1].key = reqs[r2].key
       /\ reqs[r1].ord < reqs[r2].ord

(***************************************************************************)
(* C28, C29, C30                                                           *)
(***************************************************************************)
\* r2 repeats the content of r1 less than 90 s after r1 was admitted, and
\* the dispatch of r1 has failed
FailedThenRetried(r1, r2) ==
  /\ SameContent(r1, r2)
  /\ Admitted(r1)
  /\ Returned(r1) /\ ~reqs[r1].result.ok
  /\ reqs[r1].ord < reqs[r2].ord
  /\ reqs[r2].at - reqs[r1].at >= 0
  /\ reqs[r2].at - reqs[r1].at < DEBOUNCE_MS

\* C28, as stated: when the dispatch of an admitted request fails, an
\* identical retry less than 90 s later is suppressed and makes no provider
\* call: it is answered 429 on the manual endpoints and answered with its
\* outcome, without an adapter call, on the red-alert path.
C28_FailedAdmissionStillCounts ==
  \A r1, r2 \in DOMAIN reqs :
    FailedThenRetried(r1, r2) =>
      /\ Suppressed(r2)
      /\ Created(r2) = 0
      /\ ~Has(reqs[r2].trace, "adapter")
      /\ reqs[r2].res.status = (IF reqs[r2].kind = "predict" THEN 200 ELSE 429)

\* C29, as stated: two provider calls of the red-alert path with the same
\* recipient and the same body text are made at least 90 s apart.
C29_NoDuplicatePages ==
  \A r1, r2 \in DOMAIN reqs :
    (/\ r1 # r2
     /\ reqs[r1].kind = "predict" /\ reqs[r2].kind = "predict"
     /\ Created(r1) = 1 /\ Created(r2) = 1
     /\ reqs[r1].sms.to = reqs[r2].sms.to
     /\ reqs[r1].sms.body = reqs[r2].sms.body)
    => \/ reqs[r2].at - reqs[r1].at >= DEBOUNCE_MS
       \/ reqs[r1].at - reqs[r2].at >= DEBOUNCE_MS

\* C30, as stated: an invocation of POST /api/predict whose upstream call
\* succeeded is never answered with the 400 "Prediction failed" envelope.
C30_NoFailureAfterUpstreamSuccess ==
  \A r \in DOMAIN reqs :
    reqs[r].kind = "predict" /\ reqs[r].upstreamOk =>
      ~(reqs[r].res.status = 400 /\ reqs[r].res.error = "Prediction failed")

(***************************************************************************)
(* C31                                                                     *)
(***************************************************************************)
\* the fields a request of each kind is identified by
Identity(r) ==
  CASE reqs[r].kind = "send" ->
         <<SendTo(reqs[r].body, cfg), SendBody(reqs[r].body)>>
    [] reqs[r].kind = "sched" ->
         <<SchedTo(reqs[r].body, cfg), SchedBody(reqs[r].body), ResolvedSendAt(r)>>
    [] OTHER ->
         <<AlertTo(reqs[r].body, cfg), reqs[r].body.lat, reqs[r].body.lon,
           RadiusOf(r)>>

\* C31, as stated: two requests of one kind with different identities never
\* derive the same key, also when a field contains "|" or an absent value is
\* rendered as text, and two requests of different kinds never derive the
\* same key.
C31_KeysInjective ==
  \A r1, r2 \in DOMAIN reqs :
    Checked(r1) /\ Checked(r2) /\ r1 # r2 =>
      IF reqs[r1].kind = reqs[r2].kind
      THEN Identity(r1) # Identity(r2) => reqs[r1].key # reqs[r2].key
      ELSE reqs[r1].key # reqs[r2].key

(***************************************************************************)
(* C32, C33: the failures of the adapter's checks                          *)
(***************************************************************************)
MissingTo == Failed("Missing \"to\" number")
MissingBody == Failed("Missing \"body\"")

\* C32: no request to any endpoint ends in the missing-body failure: a
\* manual send or schedule with an absent or empty body is dispatched with
\* the default text of its endpoint and the body of a red alert is never
\* empty; the missing-recipient failure occurs only for a manual send or
\* schedule without a recipient when no default recipient is configured.
C32_MissingBodyUnreachable ==
  \A r \in DOMAIN reqs :
    /\ reqs[r].result # MissingBody
    /\ Has(reqs[r].trace, "adapter") => Truthy(AdapterBody(r))
    /\ Created(r) = 1 /\ ~Truthy(reqs[r].body.body) =>
         reqs[r].sms.body =
           CASE reqs[r].kind = "send" -> Str(DefaultSendBody)
             [] reqs[r].kind = "sched" -> Str(DefaultSchedBody)
             [] OTHER -> AlertBody(reqs[r].body, RadiusOf(r))
    /\ reqs[r].result = MissingTo =>
         /\ reqs[r].kind \in {"send", "sched"}
         /\ ~Truthy(reqs[r].body.to)
         /\ ~Truthy(cfg.defaultTo)

\* a send with an empty body went out with the default text, no default
\* recipient being configured
C32_Witness ==
  \E r \in DOMAIN reqs :
    /\ reqs[r].kind = "send" /\ Created(r) = 1
    /\ reqs[r].body.body = Str("")
    /\ reqs[r].sms.body = Str(DefaultSendBody)
    /\ ~Truthy(cfg.defaultTo)

\* C33: an adapter call reports the first violated precondition in the
\* order not configured, missing recipient, missing body, and nothing else:
\* one failure per call, and no provider call.
C33_FailurePriority ==
  \A r \in DOMAIN reqs :
    reqs[r].kind = "call" /\ Has(reqs[r].trace, "adapter") =>
      LET noTo == ~Truthy(reqs[r].body.to)
          noBody == ~Truthy(reqs[r].body.body)
      IN /\ ~Configured => reqs[r].result = Failed("Twilio not configured")
         /\ Configured /\ noTo => reqs[r].result = MissingTo
         /\ Configured /\ ~noTo /\ noBody => reqs[r].result = MissingBody
         /\ ~Configured \/ noTo \/ noBody =>
              Created(r) = 0 /\ reqs[r].pc = "done"
         /\ Configured /\ ~noTo /\ ~noBody => Created(r) = 1

\* a call without recipient and without body reported the missing recipient
C33_Witness ==
  \E r \in DOMAIN reqs :
    /\ reqs[r].kind = "call" /\ Has(reqs[r].trace, "adapter")
    /\ Configured
    /\ ~Truthy(reqs[r].body.to) /\ ~Truthy(reqs[r].body.body)
    /\ reqs[r].result = MissingTo
    /\ Created(r) = 0

(***************************************************************************)
(* C34                                                                     *)
(***************************************************************************)
\* no request other than r1 and r2 derived the key of r2
OnlyThese(r1, r2) ==
  \A q \in DOMAIN reqs \ {r1, r2} : reqs[q].key # reqs[r2].key

\* r2 calls shouldSend after r1 was admitted and less than 90 s later
SoonAfterAdmitted(r1, r2) ==
  /\ Admitted(r1) /\ Checked(r2)
  /\ reqs[r1].ord < reqs[r2].ord
  /\ reqs[r2].at - reqs[r1].at >= 0
  /\ reqs[r2].at - reqs[r1].at < DEBOUNCE_MS
  /\ OnlyThese(r1, r2)

\* r1 and r2 are red alerts to one recipient at the same coordinates with
\* different severe radii
ChangedRadius(r1, r2) ==
  /\ RedAlert(r1) /\ RedAlert(r2)
  /\ AlertTo(reqs[r1].body, cfg) = AlertTo(reqs[r2].body, cfg)
  /\ reqs[r1].body.lat = reqs[r2].body.lat
  /\ reqs[r1].body.lon = reqs[r2].body.lon
  /\ RadiusOf(r1) # RadiusOf(r2)

\* r1 is a manual send and r2 a red alert to the same recipient
SendThenAlert(r1, r2) ==
  /\ reqs[r1].kind = "send" /\ RedAlert(r2)
  /\ SendTo(reqs[r1].body, cfg) = AlertTo(reqs[r2].body, cfg)

====
